---- MODULE Spec2Model ----
(***************************************************************************)
(* Reintroduction streak engine of the diet-tracking backend (src/main.py):*)
(* update_phase1_streak_days and update_phase2_streak_days, together with  *)
(* the handlers that write the rows they read.                             *)
(*                                                                         *)
(* Time is a clock of ticks, TicksPerDay ticks to a UTC calendar day.  A   *)
(* stored timestamp is the tick at which the row was written.  A caller's  *)
(* timezone is an offset in ticks.  The server is taken to run in UTC, so  *)
(* that a naive timestamp read back by datetime.fromisoformat(...)         *)
(* .astimezone(tz) denotes the instant at which it was written.            *)
(***************************************************************************)
EXTENDS Integers, FiniteSets, Sequences

VARIABLES now, diary, food, timings, phase_tracking, phase2_tracking, last, calls

vars == <<now, diary, food, timings, phase_tracking, phase2_tracking, last, calls>>

(***************************************************************************)
(* Bounds of the model.                                                    *)
(***************************************************************************)
TicksPerDay == 2
MaxTick == 7
MaxDay == 4
MaxDiary == 4
MaxDiaryFine == 3
MaxTickP2 == 7
MaxFood == 2
MaxDayP2 == 5
MaxFoodDay == 3
MaxDayAll == 3
MaxDiaryAll == 1
MaxFoodAll == 4
MaxDayItems == 3
MaxFoodItems == 1
MaxDayErr == 3
MaxFoodErr == 1
MaxTickCheck == 7
MaxDiaryCheck == 1
MaxTickStart == 7
MaxFoodStart == 1
MaxTickClock == 7
MaxDelay == 1
MaxDayOrder == 4
MaxFoodOrder == 3
MaxDayPair == 3
MaxFoodPair == 2
MaxDayBoth == 3
MaxDiaryBoth == 1
MaxFoodBoth == 1

(***************************************************************************)
(* Program constants.                                                      *)
(***************************************************************************)
LowSymptomMax == 2
MaxPhase2Days == 3
ReintroWindowDays == 3
GapLimit == 2
CatalogLowMax == 1
UserLowMin == 2

(***************************************************************************)
(* Optional values: the empty set is NULL / no row, {v} holds v.           *)
(***************************************************************************)
Null == {}
Some(v) == {v}
The(s) == CHOOSE x \in s : TRUE

Min(a, b) == IF a < b THEN a ELSE b
Max(a, b) == IF a > b THEN a ELSE b

(***************************************************************************)
(* Request inputs.                                                         *)
(***************************************************************************)
\* a request's timezone string: a known zone with its offset, or an unknown name
TZ == {0 - 1, 0, 1}
TimezoneInputs ==
    {[valid |-> TRUE, offset |-> o] : o \in TZ} \cup {[valid |-> FALSE, offset |-> 0]}

LowEntry == [wind_level |-> 2, bloat_level |-> 2, pain_level |-> 2, stool_level |-> 2]
HighEntry == [wind_level |-> 0, bloat_level |-> 0, pain_level |-> 5, stool_level |-> 0]
DiaryInputs == {LowEntry, HighEntry}

(***************************************************************************)
(* Calendar conversions.                                                   *)
(***************************************************************************)
\* datetime(...).astimezone(user_timezone).date()
LocalDate(t, tz) == (t + tz) \div TicksPerDay

\* SQLite date(created_at) of a timestamp written by datetime('now')
UtcDate(t) == t \div TicksPerDay

(***************************************************************************)
(* Phase-1 streak: update_phase1_streak_days.                              *)
(***************************************************************************)
\* any of the four severities above the low ceiling
EntryHigh(e) ==
    \/ e.wind_level > LowSymptomMax
    \/ e.bloat_level > LowSymptomMax
    \/ e.pain_level > LowSymptomMax
    \/ e.stool_level > LowSymptomMax

\* phase1_date as a calendar date of the caller, Null when no row or no date
Phase1Date(tz) ==
    IF timings # Null /\ The(timings).phase1_date # Null
    THEN Some(LocalDate(The(The(timings).phase1_date), tz))
    ELSE Null

\* the rows the diary query returns
DiaryEntriesFrom(p1) ==
    IF p1 # Null
    THEN {e \in diary : UtcDate(e.at) >= The(p1)}
    ELSE diary

\* entries_by_date[d]
EntriesByDate(entries, tz, d) == {e \in entries : LocalDate(e.at, tz) = d}

\* variants of the walk's stopping rules, used to test the properties
NeverBeforePhase1(p1, current_date) == FALSE
GapReachedAtOnce(days_without_entries) == days_without_entries >= GapLimit - 1
GapReachedLate(days_without_entries) == days_without_entries >= GapLimit + 1

\* the walk has gone before phase1_date
BeforePhase1(p1, current_date) == p1 # Null /\ current_date < The(p1)

\* all symptoms low for all entries of the day
AllSymptomsLow(day_entries) == \A e \in day_entries : ~EntryHigh(e)

\* no entries for two consecutive days
GapReached(days_without_entries) == days_without_entries >= GapLimit

\* a variant of the walk that counts a bridged day without entries
RECURSIVE StreakWalkCountingGaps(_, _, _, _, _, _)
StreakWalkCountingGaps(entries, tz, p1, current_date, streak_days, days_without_entries) ==
    IF BeforePhase1(p1, current_date)
    THEN streak_days
    ELSE LET day_entries == EntriesByDate(entries, tz, current_date) IN
         IF day_entries # {}
         THEN IF AllSymptomsLow(day_entries)
              THEN StreakWalkCountingGaps(entries, tz, p1, current_date - 1,
                                          streak_days + 1, 0)
              ELSE streak_days
         ELSE IF GapReached(days_without_entries + 1)
              THEN streak_days
              ELSE StreakWalkCountingGaps(entries, tz, p1, current_date - 1,
                                          streak_days + 1, days_without_entries + 1)

\* the backward walk: the streak accumulated when the loop breaks
RECURSIVE StreakWalk(_, _, _, _, _, _)
StreakWalk(entries, tz, p1, current_date, streak_days, days_without_entries) ==
    IF BeforePhase1(p1, current_date)
    THEN streak_days
    ELSE LET day_entries == EntriesByDate(entries, tz, current_date) IN
         IF day_entries # {}
         THEN IF AllSymptomsLow(day_entries)
              THEN StreakWalk(entries, tz, p1, current_date - 1, streak_days + 1, 0)
              ELSE streak_days
         ELSE IF GapReached(days_without_entries + 1)
              THEN streak_days
              ELSE StreakWalk(entries, tz, p1, current_date - 1, streak_days,
                              days_without_entries + 1)

\* the number of times the loop body of the same walk is entered
RECURSIVE WalkIterations(_, _, _, _, _)
WalkIterations(entries, tz, p1, current_date, days_without_entries) ==
    IF BeforePhase1(p1, current_date)
    THEN 1
    ELSE LET day_entries == EntriesByDate(entries, tz, current_date) IN
         IF day_entries # {}
         THEN IF AllSymptomsLow(day_entries)
              THEN 1 + WalkIterations(entries, tz, p1, current_date - 1, 0)
              ELSE 1
         ELSE IF GapReached(days_without_entries + 1)
              THEN 1
              ELSE 1 + WalkIterations(entries, tz, p1, current_date - 1,
                                      days_without_entries + 1)

\* streak_days computed by one request at the current instant
Phase1Streak(tz) ==
    LET p1 == Phase1Date(tz) IN
    StreakWalk(DiaryEntriesFrom(p1), tz, p1, LocalDate(now, tz), 0, 0)

NoResponse == [op |-> "none"]

\* PUT /users/{telegram_id}/phase-tracking/update-streak
update_phase1_streak_days(known, zone) ==
    /\ UNCHANGED <<now, diary, food, timings, phase2_tracking>>
    /\ IF ~known \/ phase_tracking = Null
       THEN /\ last' = [op |-> "phase1", status |-> 404]
            /\ UNCHANGED phase_tracking
       ELSE IF ~zone.valid
       THEN /\ last' = [op |-> "phase1", status |-> 400]
            /\ UNCHANGED phase_tracking
       ELSE LET tz == zone.offset
                streak_days == Phase1Streak(tz) IN
            /\ phase_tracking' =
                 Some([The(phase_tracking) EXCEPT !.phase1_streak_days = streak_days])
            /\ last' = [op |-> "phase1", status |-> 200, tz |-> tz,
                        current_streak_days |-> streak_days,
                        phase1_date_used |-> Phase1Date(tz)]

(***************************************************************************)
(* Phase-2 reintroduction / break days: update_phase2_streak_days.         *)
(***************************************************************************)
Groups == {"fructose", "lactose", "mannitol", "sorbitol", "gos", "fructan"}
NoGroup == ""

\* the row INSERT INTO phase2_tracking (user_id) creates at instant t
NewPhase2Tracking(t) ==
    [results |-> [g \in Groups |-> 0], current_group |-> NoGroup, updated_at |-> t]

\* the row INSERT INTO phase_tracking (user_id, current_phase) creates
NewPhaseTracking(phase) ==
    [current_phase |-> phase, phase1_streak_days |-> 0,
     phase2_reintroduction_days |-> 0, phase2_break_days |-> 0]

Levels(item) ==
    {item.fructose_level, item.lactose_level, item.fructan_level,
     item.mannitol_level, item.sorbitol_level, item.gos_level}

\* create_food_note's reading of a user product's level on the catalog scale
MapUserLevel(l) == IF l = 0 THEN 3 ELSE IF l = 1 THEN 2 ELSE IF l = 2 THEN 1 ELSE l

\* a variant of the item test in which only raw level 0 of a user product is high
ItemHighZeroOnly(item) ==
    IF item.user_created
    THEN \E l \in Levels(item) : l < UserLowMin - 1
    ELSE \E l \in Levels(item) : l > CatalogLowMax

\* one food item disqualifies its day
ItemHigh(item) ==
    IF item.user_created
    THEN \E l \in Levels(item) : l < UserLowMin
    ELSE \E l \in Levels(item) : l > CatalogLowMax

\* variants of the day count and of the clamp, used to test the properties
DaysSincePhase2Utc(tz) ==
    Max(0, UtcDate(now) - UtcDate(The(The(timings).phase2_date)))
NewBreakDaysUnclamped(max_consecutive_days) == max_consecutive_days

\* total_days_since_phase2
DaysSincePhase2(tz) ==
    Max(0, LocalDate(now, tz) - LocalDate(The(The(timings).phase2_date), tz))

\* a variant of the symptom check that stores its verdict for every category
SymptomCheckEveryGroup(tr, tz, stamp) ==
    IF tr = Null \/ The(tr).current_group \notin Groups
    THEN tr
    ELSE LET row == The(tr)
             reintro_start_date == LocalDate(row.updated_at, tz)
             symptom_entries ==
                 {e \in diary : /\ UtcDate(e.at) >= reintro_start_date
                                /\ UtcDate(e.at) <= reintro_start_date + ReintroWindowDays}
             fodmap_value == IF \E e \in symptom_entries : EntryHigh(e) THEN 3 ELSE 2
         IN  Some([row EXCEPT !.results = [g \in Groups |-> fodmap_value],
                              !.current_group = NoGroup,
                              !.updated_at = stamp])

\* the symptom check of the group under test, applied to the tracking row;
\* stamp is the CURRENT_TIMESTAMP of its UPDATE
SymptomCheckAt(tr, tz, stamp) ==
    IF tr = Null \/ The(tr).current_group = NoGroup
    THEN tr
    ELSE LET row == The(tr)
             reintro_start_date == LocalDate(row.updated_at, tz)
             reintro_end_date == reintro_start_date + ReintroWindowDays
             symptom_entries ==
                 {e \in diary : /\ UtcDate(e.at) >= reintro_start_date
                                /\ UtcDate(e.at) <= reintro_end_date}
             fodmap_value == IF \E e \in symptom_entries : EntryHigh(e) THEN 3 ELSE 2
         IN  IF row.current_group \in Groups
             THEN Some([row EXCEPT !.results[row.current_group] = fodmap_value,
                                   !.current_group = NoGroup,
                                   !.updated_at = stamp])
             ELSE tr

\* the same with the UPDATE made at the instant the request read the clock
SymptomCheck(tr, tz) == SymptomCheckAt(tr, tz, now)

\* first day of the food-note walk, read after the symptom check
StartingDate(tr, tz) ==
    IF tr = Null
    THEN LocalDate(The(The(timings).phase2_date), tz)
    ELSE LocalDate(The(tr).updated_at, tz)

\* the rows the food-note query returns
FoodNotesFrom(starting_date) == {n \in food : UtcDate(n.at) >= starting_date}

\* notes_by_date[d]
NotesByDate(notes, tz, d) == {n \in notes : LocalDate(n.at, tz) = d}

\* the forward walk: max_consecutive_days when the loop ends
RECURSIVE BreakWalk(_, _, _, _, _, _)
BreakWalk(notes, tz, date_to_check, current_date, consecutive_days, max_consecutive_days) ==
    IF date_to_check > current_date
    THEN max_consecutive_days
    ELSE LET day_notes == NotesByDate(notes, tz, date_to_check)
             high_fodmap_found == \E n \in day_notes : \E item \in n.items : ItemHigh(item)
             consecutive ==
                 IF day_notes # {} /\ ~high_fodmap_found THEN consecutive_days + 1 ELSE 0
         IN  BreakWalk(notes, tz, date_to_check + 1, current_date, consecutive,
                       Max(max_consecutive_days, consecutive))

\* max_consecutive_days of one request
MaxConsecutiveDays(tr, tz) ==
    LET starting_date == StartingDate(tr, tz) IN
    BreakWalk(FoodNotesFrom(starting_date), tz, starting_date, LocalDate(now, tz), 0, 0)

\* a variant in which the break is never taken as complete
BreakNeverComplete(pt) == FALSE

\* the break is already complete
BreakComplete(pt) == pt.phase2_break_days = MaxPhase2Days

\* new_reintroduction_days
NewReintroductionDays(total) == Min(MaxPhase2Days, total)

\* new_break_days
NewBreakDays(max_consecutive_days) == Min(MaxPhase2Days, max_consecutive_days)

\* PUT /users/{telegram_id}/phase-tracking/update-phase2-streak: today is derived
\* from datetime.now() at the start, the rows are stamped by the store's
\* CURRENT_TIMESTAMP when they are written, at instant stamp >= now
update_phase2_streak_days_at(known, zone, stamp) ==
    /\ now' = stamp
    /\ UNCHANGED <<diary, food, timings>>
    /\ IF ~known
       THEN /\ last' = [op |-> "phase2", status |-> 404]
            /\ UNCHANGED <<phase_tracking, phase2_tracking>>
       ELSE IF ~zone.valid
       THEN /\ last' = [op |-> "phase2", status |-> 400]
            /\ UNCHANGED <<phase_tracking, phase2_tracking>>
       ELSE IF timings = Null \/ The(timings).phase2_date = Null \/ phase_tracking = Null
       THEN /\ last' = [op |-> "phase2", status |-> 404]
            /\ UNCHANGED <<phase_tracking, phase2_tracking>>
       ELSE LET tz == zone.offset
                total == DaysSincePhase2(tz)
                pt == The(phase_tracking)
                new_reintroduction_days == NewReintroductionDays(total)
            IN
            IF new_reintroduction_days >= MaxPhase2Days
            THEN LET checked == SymptomCheckAt(phase2_tracking, tz, stamp) IN
                 IF BreakComplete(pt)
                 THEN /\ phase_tracking' =
                           Some([pt EXCEPT !.phase2_reintroduction_days = MaxPhase2Days])
                      /\ phase2_tracking' = checked
                      /\ last' = [op |-> "phase2", status |-> 200, tz |-> tz,
                                  phase2_reintroduction_days |-> MaxPhase2Days,
                                  phase2_break_days |-> pt.phase2_break_days,
                                  days_since_phase2 |-> total, walked |-> FALSE]
                 ELSE LET new_break_days == NewBreakDays(MaxConsecutiveDays(checked, tz))
                          starting_date == StartingDate(checked, tz)
                          row == IF checked = Null THEN NewPhase2Tracking(stamp)
                                                   ELSE The(checked)
                      IN
                      /\ phase_tracking' =
                           Some([pt EXCEPT !.phase2_reintroduction_days = MaxPhase2Days,
                                           !.phase2_break_days = new_break_days])
                      /\ phase2_tracking' = Some([row EXCEPT !.updated_at = stamp])
                      /\ last' = [op |-> "phase2", status |-> 200, tz |-> tz,
                                  phase2_reintroduction_days |-> MaxPhase2Days,
                                  phase2_break_days |-> new_break_days,
                                  days_since_phase2 |-> total, walked |-> TRUE,
                                  starting_date |-> starting_date]
            ELSE /\ phase_tracking' =
                      Some([pt EXCEPT !.phase2_reintroduction_days = new_reintroduction_days])
                 /\ phase2_tracking' =
                      IF phase2_tracking = Null THEN Null
                      ELSE Some([The(phase2_tracking) EXCEPT !.updated_at = stamp])
                 /\ last' = [op |-> "phase2", status |-> 200, tz |-> tz,
                             phase2_reintroduction_days |-> new_reintroduction_days,
                             phase2_break_days |-> pt.phase2_break_days,
                             days_since_phase2 |-> total, walked |-> FALSE]

\* the request served within one instant of the clock
update_phase2_streak_days(known, zone) == update_phase2_streak_days_at(known, zone, now)

\* the same request aborted by a store failure after `commits` of its
\* commits: what was committed stays, the rest is rolled back
FailurePoints == 0..4
update_phase2_streak_days_failing(zone, commits) ==
    /\ zone.valid
    /\ timings # Null
    /\ The(timings).phase2_date # Null
    /\ phase_tracking # Null
    /\ UNCHANGED <<now, diary, food, timings>>
    /\ last' = [op |-> "phase2", status |-> 500]
    /\ LET tz == zone.offset
           pt == The(phase_tracking)
           new_reintroduction_days == NewReintroductionDays(DaysSincePhase2(tz))
       IN
       IF new_reintroduction_days >= MaxPhase2Days
       THEN LET reintro_written == [pt EXCEPT !.phase2_reintroduction_days = MaxPhase2Days]
                checked == SymptomCheck(phase2_tracking, tz)
                row == IF checked = Null THEN NewPhase2Tracking(now) ELSE The(checked)
                new_break_days == NewBreakDays(MaxConsecutiveDays(checked, tz))
            IN
            /\ BreakComplete(pt) => commits <= 2
            /\ phase_tracking' =
                 IF commits >= 4
                 THEN Some([reintro_written EXCEPT !.phase2_break_days = new_break_days])
                 ELSE IF commits >= 1 THEN Some(reintro_written) ELSE phase_tracking
            /\ phase2_tracking' =
                 IF commits >= 3 THEN Some(row)
                 ELSE IF commits >= 2 THEN checked ELSE phase2_tracking
       ELSE /\ commits <= 1
            /\ phase_tracking' =
                 IF commits >= 1
                 THEN Some([pt EXCEPT !.phase2_reintroduction_days = new_reintroduction_days])
                 ELSE phase_tracking
            /\ UNCHANGED phase2_tracking

(***************************************************************************)
(* update_phase2_streak_days as its sequence of store reads and committed  *)
(* writes, for a known user, a known timezone and phase2_date set.  A      *)
(* store is the pair of rows [pt, tr]; a request is its position pc and    *)
(* the values it has read.  diary, food and timings are read in place.     *)
(***************************************************************************)
NewRequest(tz) ==
    [tz |-> tz, pc |-> "read_phase_tracking",
     current_phase2_reintroduction_days |-> 0, phase2_break_days |-> 0,
     new_reintroduction_days |-> 0, phase2_tracking_row |-> Null, new_break_days |-> 0]

RequestStep(store, r) ==
    CASE r.pc = "read_phase_tracking" ->
           LET new_reintroduction_days == NewReintroductionDays(DaysSincePhase2(r.tz)) IN
           [store |-> store,
            req |-> [r EXCEPT
                       !.current_phase2_reintroduction_days =
                            store.pt.phase2_reintroduction_days,
                       !.phase2_break_days = store.pt.phase2_break_days,
                       !.new_reintroduction_days = new_reintroduction_days,
                       !.pc = IF new_reintroduction_days >= MaxPhase2Days
                              THEN "write_reintroduction_3"
                              ELSE "write_reintroduction"]]
      [] r.pc = "write_reintroduction_3" ->
           [store |-> IF r.current_phase2_reintroduction_days # MaxPhase2Days
                      THEN [store EXCEPT !.pt.phase2_reintroduction_days = MaxPhase2Days]
                      ELSE store,
            req |-> [r EXCEPT !.pc = "read_phase2_tracking"]]
      [] r.pc = "read_phase2_tracking" ->
           [store |-> store,
            req |-> [r EXCEPT !.phase2_tracking_row = store.tr, !.pc = "write_result"]]
      [] r.pc = "write_result" ->
           LET row == r.phase2_tracking_row
               next == IF r.phase2_break_days = MaxPhase2Days THEN "done"
                                                              ELSE "read_updated_at"
           IN
           [store |-> IF row # Null /\ The(row).current_group \in Groups
                      THEN LET g == The(row).current_group
                               fodmap_value == The(SymptomCheckAt(row, r.tz, now)).results[g]
                           IN  [store EXCEPT !.tr =
                                   Some([The(store.tr) EXCEPT !.results[g] = fodmap_value,
                                                              !.current_group = NoGroup,
                                                              !.updated_at = now])]
                      ELSE store,
            req |-> [r EXCEPT !.pc = next]]
      [] r.pc = "read_updated_at" ->
           [store |-> IF store.tr = Null
                      THEN [store EXCEPT !.tr = Some(NewPhase2Tracking(now))]
                      ELSE store,
            req |-> [r EXCEPT !.new_break_days = NewBreakDays(MaxConsecutiveDays(store.tr, r.tz)),
                              !.pc = "write_break_days"]]
      [] r.pc = "write_break_days" ->
           [store |-> IF r.new_break_days # r.phase2_break_days
                      THEN [store EXCEPT !.pt.phase2_break_days = r.new_break_days]
                      ELSE store,
            req |-> [r EXCEPT !.pc = "write_updated_at"]]
      [] r.pc = "write_reintroduction" ->
           [store |-> IF r.new_reintroduction_days # r.current_phase2_reintroduction_days
                      THEN [store EXCEPT !.pt.phase2_reintroduction_days =
                                              r.new_reintroduction_days]
                      ELSE store,
            req |-> [r EXCEPT !.pc = "write_updated_at"]]
      [] r.pc = "write_updated_at" ->
           [store |-> IF store.tr # Null
                      THEN [store EXCEPT !.tr = Some([The(store.tr) EXCEPT !.updated_at = now])]
                      ELSE store,
            req |-> [r EXCEPT !.pc = "done"]]

\* the store a request leaves when it runs alone from its current position
RECURSIVE RunToEnd(_, _)
RunToEnd(store, r) ==
    IF r.pc = "done"
    THEN store
    ELSE LET next == RequestStep(store, r) IN RunToEnd(next.store, next.req)

(***************************************************************************)
(* The handlers that write the rows the engine reads.                      *)
(***************************************************************************)
\* POST /users/{telegram_id}/symptoms-diary
create_symptoms_diary_entry(known, entry) ==
    /\ known
    /\ diary' = diary \cup {[at |-> now, wind_level |-> entry.wind_level,
                             bloat_level |-> entry.bloat_level,
                             pain_level |-> entry.pain_level,
                             stool_level |-> entry.stool_level]}
    /\ last' = NoResponse
    /\ UNCHANGED <<now, food, timings, phase_tracking, phase2_tracking>>

\* POST /users/{telegram_id}/food-notes
create_food_note(known, items) ==
    /\ known
    /\ food' = food \cup {[at |-> now, items |-> items]}
    /\ last' = NoResponse
    /\ UNCHANGED <<now, diary, timings, phase_tracking, phase2_tracking>>

NewTimings == [phase1_date |-> Null, phase2_date |-> Null]

\* PUT /users/{telegram_id}/phases-timings/update-phase1-date
update_phase1_date(known) ==
    /\ known
    /\ timings' = Some([(IF timings = Null THEN NewTimings ELSE The(timings))
                          EXCEPT !.phase1_date = Some(now)])
    /\ last' = NoResponse
    /\ UNCHANGED <<now, diary, food, phase_tracking, phase2_tracking>>

\* PUT /users/{telegram_id}/phases-timings/update-phase2-date
update_phase2_date(known) ==
    /\ known
    /\ timings' = Some([(IF timings = Null THEN NewTimings ELSE The(timings))
                          EXCEPT !.phase2_date = Some(now)])
    /\ last' = NoResponse
    /\ UNCHANGED <<now, diary, food, phase_tracking, phase2_tracking>>

\* PUT /users/{telegram_id}/phase2-tracking with current_group in the body
update_or_create_phase2_tracking(known, group) ==
    /\ known
    /\ phase2_tracking' =
         IF phase2_tracking = Null
         THEN Some([NewPhase2Tracking(now) EXCEPT !.current_group = group])
         ELSE Some([The(phase2_tracking) EXCEPT !.current_group = group])
    /\ last' = NoResponse
    /\ UNCHANGED <<now, diary, food, timings, phase_tracking>>

\* POST /users/{telegram_id}/phase-tracking
create_user_phase_tracking(known, phase) ==
    /\ known
    /\ phase_tracking = Null
    /\ phase_tracking' = Some(NewPhaseTracking(phase))
    /\ last' = NoResponse
    /\ UNCHANGED <<now, diary, food, timings, phase2_tracking>>

\* PUT /users/{telegram_id}/phase-tracking: the fields set in the body are stored
update_phase_tracking(known, update_data) ==
    /\ known
    /\ phase_tracking # Null
    /\ phase_tracking' =
         Some([f \in DOMAIN The(phase_tracking) |->
                  IF f \in DOMAIN update_data
                  THEN update_data[f]
                  ELSE The(phase_tracking)[f]])
    /\ last' = NoResponse
    /\ UNCHANGED <<now, diary, food, timings, phase2_tracking>>

\* the wall clock
Tick(step, limit) ==
    /\ now + step <= limit
    /\ now' = now + step
    /\ last' = NoResponse
    /\ UNCHANGED <<diary, food, timings, phase_tracking, phase2_tracking>>

(***************************************************************************)
(* Specifications.                                                         *)
(***************************************************************************)
CatalogLowItem ==
    [user_created |-> FALSE, fructose_level |-> 1, lactose_level |-> 0,
     fructan_level |-> 1, mannitol_level |-> 0, sorbitol_level |-> 0, gos_level |-> 1]
CatalogHighItem ==
    [user_created |-> FALSE, fructose_level |-> 0, lactose_level |-> 2,
     fructan_level |-> 0, mannitol_level |-> 0, sorbitol_level |-> 0, gos_level |-> 0]
UserLowItem ==
    [user_created |-> TRUE, fructose_level |-> 2, lactose_level |-> 2,
     fructan_level |-> 2, mannitol_level |-> 2, sorbitol_level |-> 2, gos_level |-> 2]
UserHighItem ==
    [user_created |-> TRUE, fructose_level |-> 2, lactose_level |-> 2,
     fructan_level |-> 2, mannitol_level |-> 0, sorbitol_level |-> 2, gos_level |-> 2]
LowNote == {CatalogLowItem, UserLowItem}
HighNote == {CatalogLowItem, UserHighItem}
FoodInputs == {LowNote, HighNote}
GroupInputs == {"fructose", "bogus"}

\* an onboarded user at instant t: the phase_tracking row exists, counters at zero
Onboarded(t) ==
    /\ now = t
    /\ diary = {}
    /\ food = {}
    /\ timings = Null
    /\ phase_tracking = Some(NewPhaseTracking(1))
    /\ phase2_tracking = Null
    /\ last = NoResponse
    /\ calls = {}

\* the same user right after update_phase2_date at instant t
Phase2Started(t) ==
    /\ now = t
    /\ diary = {}
    /\ food = {}
    /\ timings = Some([NewTimings EXCEPT !.phase2_date = Some(t)])
    /\ phase_tracking = Some(NewPhaseTracking(2))
    /\ phase2_tracking = Null
    /\ last = NoResponse
    /\ calls = {}

Init == Onboarded(0)

\* the user acts at one fixed time of day, chosen at the start
InitDay == \E t \in 0..(TicksPerDay - 1) : Onboarded(t)
InitPhase2Day == \E t \in 0..(TicksPerDay - 1) : Phase2Started(t)

TickBy(step, limit) == Tick(step, limit) /\ UNCHANGED calls
AddDiary(inputs, cap) ==
    /\ Cardinality(diary) < cap
    /\ \E e \in inputs : create_symptoms_diary_entry(TRUE, e)
    /\ UNCHANGED calls
AddFood(inputs, cap) ==
    /\ Cardinality(food) < cap
    /\ \E items \in inputs : create_food_note(TRUE, items)
    /\ UNCHANGED calls
SetPhase1Date == update_phase1_date(TRUE) /\ UNCHANGED calls
SetPhase2Date == update_phase2_date(TRUE) /\ UNCHANGED calls
SetGroup(inputs) ==
    /\ \E g \in inputs : update_or_create_phase2_tracking(TRUE, g)
    /\ UNCHANGED calls
ComputePhase1 ==
    /\ \E known \in BOOLEAN : \E zone \in TimezoneInputs :
           update_phase1_streak_days(known, zone)
    /\ UNCHANGED calls
AdvancePhase2 ==
    /\ \E known \in BOOLEAN : \E zone \in TimezoneInputs :
           update_phase2_streak_days(known, zone)
    /\ UNCHANGED calls
\* the same request from a user who stays in one timezone; remembered are the
\* successful ones made when a food note of the caller's day already existed
AdvancePhase2Logged ==
    \E known \in BOOLEAN : \E zone \in TimezoneInputs :
        /\ \A c \in calls : zone.valid => c.tz = zone.offset
        /\ update_phase2_streak_days(known, zone)
        /\ calls' =
             IF /\ last'.status = 200
                /\ \E n \in food :
                      LocalDate(n.at, zone.offset) = LocalDate(now, zone.offset)
             THEN calls \cup {[day |-> LocalDate(now, zone.offset), tz |-> zone.offset]}
             ELSE calls

\* every operation on the engine's rows, one instant per UTC day
TickAll == TickBy(TicksPerDay, MaxDayAll * TicksPerDay)
AddDiaryAll == AddDiary({HighEntry}, MaxDiaryAll)
AddFoodAll == AddFood({LowNote}, MaxFoodAll)
SetGroupAll == SetGroup({"fructose"})
Next ==
    \/ TickAll
    \/ AddDiaryAll
    \/ AddFoodAll
    \/ SetPhase1Date
    \/ SetPhase2Date
    \/ SetGroupAll
    \/ ComputePhase1
    \/ AdvancePhase2
Spec == Init /\ [][Next]_vars

\* the phase-1 calculator on a fine clock
TickFine == TickBy(1, MaxTick)
AddDiaryFine == AddDiary(DiaryInputs, MaxDiaryFine)
NextP1 == TickFine \/ AddDiaryFine \/ SetPhase1Date \/ ComputePhase1
SpecP1 == Init /\ [][NextP1]_vars

\* the phase-1 calculator with one instant per UTC day
TickDay == TickBy(TicksPerDay, MaxDay * TicksPerDay + TicksPerDay - 1)
AddDiaryDay == AddDiary(DiaryInputs, MaxDiary)
NextP1Day == TickDay \/ AddDiaryDay \/ SetPhase1Date \/ ComputePhase1
SpecP1Day == InitDay /\ [][NextP1Day]_vars

\* the phase-2 driver on a fine clock
TickP2 == TickBy(1, MaxTickP2)
AddFoodP2 == AddFood(FoodInputs, MaxFood)
SetGroupP2 == SetGroup({"fructose"})
NextP2 == TickP2 \/ AddFoodP2 \/ SetPhase2Date \/ SetGroupP2 \/ AdvancePhase2
SpecP2 == Init /\ [][NextP2]_vars

\* the phase-2 driver in daily use after update_phase2_date
TickP2Day == TickBy(TicksPerDay, MaxDayP2 * TicksPerDay + TicksPerDay - 1)
AddFoodP2Day == AddFood(FoodInputs, MaxFoodDay)
NextP2Day == TickP2Day \/ AddFoodP2Day \/ AdvancePhase2Logged
SpecP2Day == InitPhase2Day /\ [][NextP2Day]_vars

\* the phase-2 driver fed single-item notes of every level on both scales
Categories ==
    {"fructose_level", "lactose_level", "fructan_level",
     "mannitol_level", "sorbitol_level", "gos_level"}
UserItem(c, r) ==
    [f \in Categories \cup {"user_created"} |->
        IF f = "user_created" THEN TRUE ELSE IF f = c THEN r ELSE 2]
CatalogItem(c, r) ==
    [f \in Categories \cup {"user_created"} |->
        IF f = "user_created" THEN FALSE ELSE IF f = c THEN r ELSE 0]
ItemNoteInputs ==
    {{UserItem(c, r)} : c \in Categories, r \in 0..2}
        \cup {{CatalogItem(c, r)} : c \in Categories, r \in 0..3}
TickItems == TickBy(TicksPerDay, MaxDayItems * TicksPerDay + TicksPerDay - 1)
AddFoodItems == AddFood(ItemNoteInputs, MaxFoodItems)
NextItems == TickItems \/ AddFoodItems \/ AdvancePhase2
SpecItems == InitPhase2Day /\ [][NextItems]_vars

\* a registered user before onboarding: no phase_tracking row yet
Registered(t) ==
    /\ now = t
    /\ diary = {}
    /\ food = {}
    /\ timings = Null
    /\ phase_tracking = Null
    /\ phase2_tracking = Null
    /\ last = NoResponse
    /\ calls = {}
InitErr == Registered(0)

\* the two engine requests, the request just made remembered
ComputePhase1Request ==
    \E known \in BOOLEAN : \E zone \in TimezoneInputs :
        /\ update_phase1_streak_days(known, zone)
        /\ calls' = {[op |-> "phase1", known |-> known, valid |-> zone.valid]}
AdvancePhase2Request ==
    \E known \in BOOLEAN : \E zone \in TimezoneInputs :
        /\ update_phase2_streak_days(known, zone)
        /\ calls' = {[op |-> "phase2", known |-> known, valid |-> zone.valid]}
\* a variant of the phase-2 request that inserts the tracking row before it
\* finds phase2_date missing
AdvancePhase2RequestInserting ==
    \E known \in BOOLEAN : \E zone \in TimezoneInputs :
        /\ IF /\ known
              /\ zone.valid
              /\ phase_tracking # Null
              /\ timings = Null \/ The(timings).phase2_date = Null
           THEN /\ phase2_tracking' = Some(NewPhase2Tracking(now))
                /\ last' = [op |-> "phase2", status |-> 404]
                /\ UNCHANGED <<now, diary, food, timings, phase_tracking>>
           ELSE update_phase2_streak_days(known, zone)
        /\ calls' = {[op |-> "phase2", known |-> known, valid |-> zone.valid]}
AdvancePhase2Err == AdvancePhase2Request
CreatePhaseTracking == create_user_phase_tracking(TRUE, 1) /\ UNCHANGED calls
TickErr == TickBy(TicksPerDay, MaxDayErr * TicksPerDay)
AddFoodErr == AddFood({LowNote}, MaxFoodErr)
SetGroupErr == SetGroup({"fructose"})
NextErr ==
    \/ TickErr
    \/ AddFoodErr
    \/ CreatePhaseTracking
    \/ SetPhase1Date
    \/ SetPhase2Date
    \/ SetGroupErr
    \/ ComputePhase1Request
    \/ AdvancePhase2Err
SpecErr == InitErr /\ [][NextErr]_vars

\* the phase-2 driver with store failures
AdvancePhase2Failing ==
    /\ \E zone \in TimezoneInputs : \E commits \in FailurePoints :
           update_phase2_streak_days_failing(zone, commits)
    /\ UNCHANGED calls
TickFail == TickBy(TicksPerDay, MaxDayErr * TicksPerDay + TicksPerDay - 1)
AddFoodFail == AddFood(FoodInputs, MaxFoodErr)
SetGroupFail == SetGroup({"fructose"})
NextFail == TickFail \/ AddFoodFail \/ SetGroupFail \/ AdvancePhase2 \/ AdvancePhase2Failing
SpecFail == InitPhase2Day /\ [][NextFail]_vars

\* the symptom check on a fine clock; the start of the group's test remembered
InitPhase2 == Phase2Started(0)
SetGroupLogged ==
    \E g \in GroupInputs :
        /\ update_or_create_phase2_tracking(TRUE, g)
        /\ calls' =
             IF phase2_tracking # Null /\ The(phase2_tracking).current_group = g
             THEN calls
             ELSE {[started |-> now, group |-> g]}
TickCheck == TickBy(1, MaxTickCheck)
AddDiaryCheck == AddDiary(DiaryInputs, MaxDiaryCheck)
NextCheck == TickCheck \/ AddDiaryCheck \/ SetGroupLogged \/ AdvancePhase2
SpecCheck == InitPhase2 /\ [][NextCheck]_vars

\* every writer of phase_tracking, the generic update included
PhaseTrackingUpdates ==
    {[phase2_break_days |-> 7],
     [phase1_streak_days |-> 0 - 1, phase2_reintroduction_days |-> 5],
     [current_phase |-> 2]}
UpdatePhaseTracking ==
    /\ \E update_data \in PhaseTrackingUpdates : update_phase_tracking(TRUE, update_data)
    /\ UNCHANGED calls
NextPut == NextErr \/ UpdatePhaseTracking
SpecPut == InitErr /\ [][NextPut]_vars

\* the phase-2 driver with phase2_date set, and set again, at any time
TickStart == TickBy(1, MaxTickStart)
AddFoodStart == AddFood({LowNote}, MaxFoodStart)
SetGroupStart == SetGroup({NoGroup, "fructose"})
NextStart == TickStart \/ AddFoodStart \/ SetGroupStart \/ SetPhase2Date \/ AdvancePhase2
SpecStart == Init /\ [][NextStart]_vars

\* the phase-2 driver with the clock moving while a request is served
AdvancePhase2Slow ==
    /\ \E zone \in TimezoneInputs : \E delay \in 0..MaxDelay :
           /\ now + delay <= MaxTickClock
           /\ update_phase2_streak_days_at(TRUE, zone, now + delay)
    /\ UNCHANGED calls
TickClock == TickBy(1, MaxTickClock)
SetGroupClock == SetGroup({"fructose"})
NextClock == TickClock \/ SetGroupClock \/ AdvancePhase2Slow
SpecClock == InitPhase2 /\ [][NextClock]_vars

\* the phase-2 driver in daily use with groups put under test at any time
TickOrder == TickBy(TicksPerDay, MaxDayOrder * TicksPerDay + TicksPerDay - 1)
AddFoodOrder == AddFood({LowNote}, MaxFoodOrder)
SetGroupOrder == SetGroup(GroupInputs)
NextOrder == TickOrder \/ AddFoodOrder \/ SetGroupOrder \/ AdvancePhase2
SpecOrder == InitPhase2Day /\ [][NextOrder]_vars

\* two phase-2 requests of one user, in one timezone, served at the same time:
\* calls holds the store they started from and the position of each
Store == [pt |-> The(phase_tracking), tr |-> phase2_tracking]
Pair == The(calls)
BeginPair ==
    /\ calls = {}
    /\ phase2_tracking # Null
    /\ \E tz \in TZ :
          calls' = {[start |-> Store, first |-> NewRequest(tz), second |-> NewRequest(tz)]}
    /\ last' = NoResponse
    /\ UNCHANGED <<now, diary, food, timings, phase_tracking, phase2_tracking>>
StepFirst ==
    /\ calls # {}
    /\ Pair.first.pc # "done"
    /\ LET next == RequestStep(Store, Pair.first) IN
       /\ phase_tracking' = Some(next.store.pt)
       /\ phase2_tracking' = next.store.tr
       /\ calls' = {[Pair EXCEPT !.first = next.req]}
    /\ last' = NoResponse
    /\ UNCHANGED <<now, diary, food, timings>>
StepSecond ==
    /\ calls # {}
    /\ Pair.second.pc # "done"
    /\ LET next == RequestStep(Store, Pair.second) IN
       /\ phase_tracking' = Some(next.store.pt)
       /\ phase2_tracking' = next.store.tr
       /\ calls' = {[Pair EXCEPT !.second = next.req]}
    /\ last' = NoResponse
    /\ UNCHANGED <<now, diary, food, timings>>
TickPair == calls = {} /\ TickBy(TicksPerDay, MaxDayPair * TicksPerDay + TicksPerDay - 1)
AddFoodPair == calls = {} /\ AddFood({LowNote}, MaxFoodPair)
SetGroupPair == calls = {} /\ SetGroup({NoGroup, "fructose"})
NextPair == TickPair \/ AddFoodPair \/ SetGroupPair \/ BeginPair \/ StepFirst \/ StepSecond
SpecPair == InitPhase2Day /\ [][NextPair]_vars

\* what a phase-2 request made now in timezone tz would leave of the phase-2
\* counters and of phase2_tracking
Phase2Outcome(tz) ==
    IF phase_tracking = Null \/ timings = Null \/ The(timings).phase2_date = Null
    THEN <<>>
    ELSE LET end == RunToEnd(Store, NewRequest(tz)) IN
         <<end.pt.phase2_reintroduction_days, end.pt.phase2_break_days, end.tr>>

\* a variant of the phase-1 request that also clears the break counter
ComputePhase1Resetting ==
    /\ phase_tracking # Null
    /\ \E zone \in TimezoneInputs :
          /\ zone.valid
          /\ phase_tracking' =
               Some([The(phase_tracking) EXCEPT
                        !.phase1_streak_days = Phase1Streak(zone.offset),
                        !.phase2_break_days = 0])
          /\ last' = [op |-> "phase1", status |-> 200, tz |-> zone.offset,
                      current_streak_days |-> Phase1Streak(zone.offset),
                      phase1_date_used |-> Phase1Date(zone.offset)]
    /\ calls' = {[phase2 |-> [tz \in TZ |-> Phase2Outcome(tz)]]}
    /\ UNCHANGED <<now, diary, food, timings, phase2_tracking>>

\* both calculators in daily use by one user; each request leaves in calls
\* what the other calculator would have computed just before it
ComputePhase1Logged ==
    \E known \in BOOLEAN : \E zone \in TimezoneInputs :
        /\ update_phase1_streak_days(known, zone)
        /\ calls' = {[phase2 |-> [tz \in TZ |-> Phase2Outcome(tz)]]}
ComputePhase1Both == ComputePhase1Logged
AdvancePhase2Both ==
    \E known \in BOOLEAN : \E zone \in TimezoneInputs :
        /\ update_phase2_streak_days(known, zone)
        /\ calls' = {[phase1 |-> [tz \in TZ |-> Phase1Streak(tz)]]}
TickBoth == TickBy(TicksPerDay, MaxDayBoth * TicksPerDay)
AddDiaryBoth == AddDiary({LowEntry}, MaxDiaryBoth)
AddFoodBoth == AddFood({LowNote}, MaxFoodBoth)
NextBoth ==
    \/ TickBoth
    \/ AddDiaryBoth
    \/ AddFoodBoth
    \/ SetPhase1Date
    \/ SetPhase2Date
    \/ ComputePhase1Both
    \/ AdvancePhase2Both
SpecBoth == Init /\ [][NextBoth]_vars

(***************************************************************************)
(* Vocabulary of the properties: what the stores hold, read in the         *)
(* caller's timezone, independently of the queries the handlers run.       *)
(***************************************************************************)
Phase1Ok == last.op = "phase1" /\ last.status = 200
Phase2Ok == last.op = "phase2" /\ last.status = 200
Today == LocalDate(now, last.tz)
Stored == The(phase_tracking)

\* the diary entries of calendar day d of the caller
DiaryOn(d) == {e \in diary : LocalDate(e.at, last.tz) = d}
DiaryLow(e) ==
    /\ e.wind_level <= 2
    /\ e.bloat_level <= 2
    /\ e.pain_level <= 2
    /\ e.stool_level <= 2

\* phase1_start as a calendar day of the caller, when it is set
HasPhase1Start == timings # Null /\ The(timings).phase1_date # Null
Phase1Start == LocalDate(The(The(timings).phase1_date), last.tz)

\* the food notes of calendar day d of the caller
FoodOn(d) == {n \in food : LocalDate(n.at, last.tz) = d}
ItemLow(item) ==
    IF item.user_created
    THEN \A l \in Levels(item) : l >= 2
    ELSE \A l \in Levels(item) : l <= 1
DayPasses(d) == FoodOn(d) # {} /\ \A n \in FoodOn(d) : \A item \in n.items : ItemLow(item)

\* the longest run of consecutive passing days within from..to
LongestRun(from, to) ==
    LET runs == {r \in 0..(to - from + 1) :
                    \E a \in from..to :
                        /\ a + r - 1 <= to
                        /\ \A d \in a..(a + r - 1) : DayPasses(d)}
    IN  CHOOSE r \in runs : \A q \in runs : q <= r

\* calendar days from phase2_start to today, none when phase2_start is later
DaysFromPhase2Start ==
    Cardinality((LocalDate(The(The(timings).phase2_date), last.tz) + 1)..Today)

(***************************************************************************)
(* Phase-1 streak.                                                         *)
(***************************************************************************)
\* the calendar days of the caller that have a diary entry
DiaryDays == {LocalDate(e.at, last.tz) : e \in diary}
DayLow(d) == \A e \in DiaryOn(d) : DiaryLow(e)
EarliestDay == CHOOSE d \in DiaryDays \cup {Today} : \A q \in DiaryDays \cup {Today} : d <= q

\* the oldest day the walk may visit
WalkFloor == IF HasPhase1Start THEN Phase1Start ELSE EarliestDay - 2

\* first days of two consecutive days without entries, within the walk's range
Gaps == {g \in WalkFloor..(Today - 1) : DiaryOn(g) = {} /\ DiaryOn(g + 1) = {}}
LatestGap == CHOOSE g \in Gaps : \A q \in Gaps : q <= g

\* days with a high entry, within the walk's range
HighDays == {d \in WalkFloor..Today : DiaryOn(d) # {} /\ ~DayLow(d)}
LatestHighDay == CHOOSE d \in HighDays : \A q \in HighDays : q <= d

\* the days of from..Today that have entries
LoggedSince(from) == {d \in from..Today : DiaryOn(d) # {}}

StreakIs(n) == Stored.phase1_streak_days = n /\ last.current_streak_days = n

\* Scenario C: entries on days s, s+1, s+3, s+4, all low, none on s+2, today s+4
ScenarioC ==
    /\ Phase1Ok
    /\ HasPhase1Start
    /\ Today = Phase1Start + 4
    /\ DiaryDays \cap (Phase1Start..Today) =
         {Phase1Start, Phase1Start + 1, Phase1Start + 3, Phase1Start + 4}
    /\ \A d \in Phase1Start..Today : DayLow(d)

\* C3 (as stated): Scenario C yields streak_days = 5.
C3_ScenarioC_Five == ScenarioC => StreakIs(5)

\* C3: Scenario C continues the streak across the missing day and yields
\* streak_days = 4, the days that have entries; 3 when every entry of the first
\* day is stored under a UTC date before phase1_start.
C3_ScenarioC ==
    ScenarioC =>
        IF \E e \in DiaryOn(Phase1Start) : UtcDate(e.at) >= Phase1Start
        THEN StreakIs(4)
        ELSE StreakIs(3)

\* C3 witness: Scenario C evaluated, the streak reaching back to phase1_start.
C3_Witness == ScenarioC /\ StreakIs(4)

\* C4 (as stated): 0 <= phase1_streak_days <= days from phase1_start to today.
C4_StreakWithinDaysSince ==
    (Phase1Ok /\ HasPhase1Start) =>
        /\ Stored.phase1_streak_days >= 0
        /\ Stored.phase1_streak_days <= Today - Phase1Start

\* C4: the value written is between 0 and the number of calendar days of
\* phase1_start..today, both ends included.
C4_StreakWithinDays ==
    (Phase1Ok /\ HasPhase1Start) =>
        /\ Stored.phase1_streak_days >= 0
        /\ Stored.phase1_streak_days <= Today - Phase1Start + 1
        /\ last.current_streak_days = Stored.phase1_streak_days

\* C4 witness: a streak of every day of phase1_start..today, two days at least.
C4_Witness ==
    /\ Phase1Ok
    /\ HasPhase1Start
    /\ Today > Phase1Start
    /\ StreakIs(Today - Phase1Start + 1)

\* C5: when every day of phase1_start..today has an entry and all entries of
\* those days are low, the streak returned and stored is t - s + 1.
C5_EveryDayLow ==
    (/\ Phase1Ok
     /\ HasPhase1Start
     /\ \A d \in Phase1Start..Today : DiaryOn(d) # {} /\ DayLow(d))
        => StreakIs(Today - Phase1Start + 1)

\* C6: the latest day with a high entry is not counted and no earlier day is:
\* the streak counts at most the days with entries after it.
C6_HighDayStopsWalk ==
    (Phase1Ok /\ HighDays # {}) =>
        /\ Stored.phase1_streak_days <= Cardinality(LoggedSince(LatestHighDay + 1))
        /\ last.current_streak_days = Stored.phase1_streak_days

\* C7: with two consecutive days without entries in the walk's range, no day
\* older than the latest such gap is counted, and the days with entries after
\* it are all counted when their entries are low.
C7_TwoDayGap ==
    (Phase1Ok /\ Gaps # {}) =>
        LET after == LoggedSince(LatestGap + 2) IN
        /\ Stored.phase1_streak_days <= Cardinality(after)
        /\ last.current_streak_days = Stored.phase1_streak_days
        /\ (\A d \in after : DayLow(d)) => StreakIs(Cardinality(after))

\* C7 witness: a low day older than the gap, inside the walk's range, and a
\* counted day after the gap.
C7_Witness ==
    /\ Phase1Ok
    /\ HasPhase1Start
    /\ Gaps # {}
    /\ \E d \in Phase1Start..(LatestGap - 1) : DiaryOn(d) # {} /\ DayLow(d)
    /\ Stored.phase1_streak_days >= 1

(***************************************************************************)
(* Phase-2 driver.                                                         *)
(***************************************************************************)
\* C1: a second successful advance in the same timezone, with no tick and no
\* store write since the first, stores and returns the same two counters.
C1_SecondCallSameCounters ==
    [][(Phase2Ok /\ last'.op = "phase2" /\ last'.status = 200 /\ last'.tz = last.tz)
         => /\ last'.phase2_reintroduction_days = last.phase2_reintroduction_days
            /\ last'.phase2_break_days = last.phase2_break_days
            /\ The(phase_tracking').phase2_reintroduction_days
                 = Stored.phase2_reintroduction_days
            /\ The(phase_tracking').phase2_break_days = Stored.phase2_break_days]_vars

\* C8: after a successful advance the stored and the returned
\* phase2_reintroduction_days are min(3, d), d the calendar days from
\* phase2_start to today in the caller's timezone.
C8_ReintroductionDays ==
    Phase2Ok =>
        LET d == DaysFromPhase2Start
            expected == IF d >= 3 THEN 3 ELSE d
        IN  /\ Stored.phase2_reintroduction_days = expected
            /\ last.phase2_reintroduction_days = expected

\* C8 witness: an advance more than three days after phase2_start, in a
\* timezone other than UTC.
C8_Witness ==
    /\ Phase2Ok
    /\ last.tz # 0
    /\ DaysFromPhase2Start > 3
    /\ Stored.phase2_reintroduction_days = 3

\* C9: an advance that walks the food log sets phase2_break_days to min(3, M),
\* M the longest run of consecutive passing days from the first walked day to
\* today; a day passes when it has a food note and every item logged is low.
C9_BreakDays ==
    (Phase2Ok /\ last.walked) =>
        LET m == LongestRun(last.starting_date, Today)
            expected == IF m >= 3 THEN 3 ELSE m
        IN  /\ Stored.phase2_break_days = expected
            /\ last.phase2_break_days = expected

\* C10: with reintroduction complete, three consecutive days of low-only food,
\* each followed that day by a successful advance, leave phase2_break_days at 3
\* after the third day's advance.
C10_ThreeLowDaysCompleteBreak ==
    (/\ Phase2Ok
     /\ Today - 2 - LocalDate(The(The(timings).phase2_date), last.tz) >= 3
     /\ \A d \in (Today - 2)..Today :
            /\ DayPasses(d)
            /\ [day |-> d, tz |-> last.tz] \in calls)
        => /\ Stored.phase2_break_days = 3
           /\ last.phase2_break_days = 3

(***************************************************************************)
(* All operations.                                                         *)
(***************************************************************************)
\* C2: phase2_reintroduction_days and phase2_break_days stay within 0..3 in
\* every state reached by the engine and the handlers that feed it.
C2_Clamp ==
    phase_tracking # Null =>
        /\ Stored.phase2_reintroduction_days \in 0..3
        /\ Stored.phase2_break_days \in 0..3

\* C2 witness: an advance whose walk found more than three consecutive passing
\* days.
C2_Witness ==
    /\ Phase2Ok
    /\ last.walked
    /\ LongestRun(last.starting_date, Today) > 3
    /\ Stored.phase2_reintroduction_days = 3
    /\ Stored.phase2_break_days = 3

(***************************************************************************)
(* Food items on the two scales.                                           *)
(***************************************************************************)
\* a user product read on the catalog scale, as create_food_note reports it
AsCatalog(item) ==
    [f \in DOMAIN item |->
        IF f = "user_created" THEN FALSE ELSE MapUserLevel(item[f])]

\* C11: a logged user product disqualifies its day exactly when the catalog
\* item with levels 3 - r does; a catalog item passes exactly with all levels
\* <= 1 and a user product exactly with all levels >= 2.
C11_CrossScale ==
    \A n \in food : \A item \in n.items :
        /\ ItemHigh(item) <=> ~ItemLow(item)
        /\ item.user_created => (ItemHigh(item) <=> ItemHigh(AsCatalog(item)))

\* C11 witness: a walk over a day whose only item is a user product with a raw
\* level 1 (medium), which fails the day.
C11_Witness ==
    /\ Phase2Ok
    /\ last.walked
    /\ last.starting_date <= Today
    /\ \E n \in FoodOn(Today) : \E item \in n.items :
          item.user_created /\ 1 \in Levels(item) /\ 0 \notin Levels(item)
    /\ Stored.phase2_break_days = 0

(***************************************************************************)
(* Error responses.                                                        *)
(***************************************************************************)
\* the request that produced the response in last
Request == The(calls)
Answered == last.op # "none"
NoPhase2Start == timings = Null \/ The(timings).phase2_date = Null

\* C12: a phase-2 request for a user without phase2_start, and either request
\* for an unknown user or a user without a phase_tracking row, leaves
\* phase_tracking, phase2_tracking and timings as they were and, its timezone
\* being known, answers not found.
C12_NotFoundNoEffect ==
    [][\A c \in calls' :
          (/\ last'.op # "none"
           /\ \/ ~c.known
              \/ phase_tracking = Null
              \/ c.op = "phase2" /\ NoPhase2Start)
             => /\ UNCHANGED <<phase_tracking, phase2_tracking, timings>>
                /\ last'.status # 200
                /\ (c.valid \/ ~c.known \/ c.op = "phase1") => last'.status = 404]_vars

\* C12 witness: a phase-2 request with a known timezone answered not found for
\* an onboarded user who has no phase2_start.
C12_Witness ==
    /\ Answered
    /\ Request.op = "phase2"
    /\ Request.known
    /\ Request.valid
    /\ phase_tracking # Null
    /\ NoPhase2Start
    /\ last.status = 404

\* C13: a request with an unknown timezone is answered with the validation
\* error, whatever the state of the user's rows, the user unknown included.
C13_TimezoneFirst ==
    (Answered /\ ~Request.valid) => last.status = 400

\* C14: a phase-2 request that ends in a store failure leaves phase_tracking
\* and phase2_tracking as they were before the request.
C14_AllOrNothing ==
    [][(last'.op = "phase2" /\ last'.status = 500)
          => UNCHANGED <<phase_tracking, phase2_tracking>>]_vars

(***************************************************************************)
(* Phase-2 driver in daily use.                                            *)
(***************************************************************************)
\* C15: once phase2_break_days is 3 it stays 3; an advance made then walks no
\* food notes and reports 3.
C15_BreakCompleteTerminal ==
    [][Stored.phase2_break_days = 3
          => /\ The(phase_tracking').phase2_break_days = 3
             /\ (last'.op = "phase2" /\ last'.status = 200)
                  => ~last'.walked /\ last'.phase2_break_days = 3]_vars

\* C15 witness: an advance with the break complete, made on a day without a
\* passing food log after the last walk.
C15_Witness ==
    /\ Phase2Ok
    /\ ~last.walked
    /\ last.phase2_reintroduction_days = 3
    /\ last.phase2_break_days = 3
    /\ Stored.phase2_break_days = 3
    /\ ~DayPasses(Today)
    /\ \E c \in calls : c.day < Today

(***************************************************************************)
(* Symptom check.                                                          *)
(***************************************************************************)
\* a successful advance with reintroduction_days at 3 is being made
CheckStep ==
    /\ last'.op = "phase2"
    /\ last'.status = 200
    /\ last'.phase2_reintroduction_days = 3
GroupUnderTest == IF phase2_tracking = Null THEN NoGroup ELSE The(phase2_tracking).current_group

\* the diary entries of the caller's days test_start .. test_start + 3
TestWindow(tz) ==
    LET test_start == LocalDate(The(phase2_tracking).updated_at, tz) IN
    {e \in diary : LocalDate(e.at, tz) \in test_start..(test_start + 3)}

\* C16: the symptom check sets the tested category's result to 3 when a diary
\* entry of the days test_start .. test_start + 3 has a severity above 2, and
\* to 2 otherwise.
C16_SymptomVerdict ==
    [][(CheckStep /\ GroupUnderTest \in Groups)
          => The(phase2_tracking').results[GroupUnderTest] =
               IF \E e \in TestWindow(last'.tz) : ~DiaryLow(e) THEN 3 ELSE 2]_vars

\* C17: an advance at reintroduction_days 3 with current_group set leaves it
\* empty and assigns one category's result; with current_group empty it
\* assigns none.
C17_OneVerdictThenCleared ==
    [][CheckStep
          => IF GroupUnderTest # NoGroup
             THEN /\ The(phase2_tracking').current_group = NoGroup
                  /\ \E g \in Groups :
                        /\ The(phase2_tracking').results[g] \in {2, 3}
                        /\ \A h \in Groups \ {g} :
                              The(phase2_tracking').results[h]
                                 = The(phase2_tracking).results[h]
             ELSE phase2_tracking # Null
                     => The(phase2_tracking').results = The(phase2_tracking).results]_vars

(***************************************************************************)
(* Writers of phase_tracking.                                              *)
(***************************************************************************)
Counters(pt) ==
    <<pt.phase1_streak_days, pt.phase2_reintroduction_days, pt.phase2_break_days>>

\* C18: the three counters of an existing phase_tracking row change only in a
\* successful update_phase1_streak_days or update_phase2_streak_days.
C18_OnlyEngineWrites ==
    [][(phase_tracking # Null /\ phase_tracking' # Null
          /\ Counters(The(phase_tracking')) # Counters(The(phase_tracking)))
         => last'.op \in {"phase1", "phase2"} /\ last'.status = 200]_vars

(***************************************************************************)
(* Anchors of the phase-2 windows.                                         *)
(***************************************************************************)
\* C19: a walking advance starts its walk at phase2_start's date when there is
\* no tracking row, never before phase2_start, and otherwise at the later of
\* phase2_start's date and the date of the row's updated_at.
C19_WalkStart ==
    [][(CheckStep /\ last'.walked)
          => LET phase2_start == LocalDate(The(The(timings).phase2_date), last'.tz) IN
             /\ last'.starting_date >= phase2_start
             /\ phase2_tracking = Null => last'.starting_date = phase2_start
             /\ (phase2_tracking # Null /\ GroupUnderTest \notin Groups)
                  => last'.starting_date =
                       Max(phase2_start,
                           LocalDate(The(phase2_tracking).updated_at, last'.tz))]_vars

\* C20: an advance made while reintroduction_days is below 3 leaves the
\* tracking row's updated_at alone, and when the symptom check runs for a
\* group, updated_at is still the instant at which that group's test began.
C20_WindowStartsAtTestStart ==
    [][/\ (/\ last'.op = "phase2"
           /\ last'.status = 200
           /\ last'.phase2_reintroduction_days < 3
           /\ phase2_tracking # Null)
             => The(phase2_tracking').updated_at = The(phase2_tracking).updated_at
       /\ (CheckStep /\ GroupUnderTest \in Groups)
             => The(phase2_tracking).updated_at = The(calls).started]_vars

(***************************************************************************)
(* Phase-1 date filter.                                                    *)
(***************************************************************************)
\* the entries a phase-1 request made now in last.tz reads and may walk over
UsedByPhase1 ==
    {e \in DiaryEntriesFrom(Phase1Date(last.tz)) :
        ~BeforePhase1(Phase1Date(last.tz), LocalDate(e.at, last.tz))}

\* C21: with phase1_start set, the entries the phase-1 streak uses are exactly
\* those whose calendar date in the caller's timezone is on or after
\* phase1_start's date in that timezone.
C21_FilterAgreesWithTimezone ==
    (Phase1Ok /\ HasPhase1Start) =>
        UsedByPhase1 = {e \in diary : LocalDate(e.at, last.tz) >= Phase1Start}

(***************************************************************************)
(* The clock within one request.                                           *)
(***************************************************************************)
\* C22: the updated_at an advance stores in phase2_tracking is the instant the
\* request read at its start, and so falls on the caller's day the request
\* took as today.
C22_SingleNow ==
    [][(/\ last'.op = "phase2"
        /\ last'.status = 200
        /\ phase2_tracking' # Null
        /\ phase2_tracking' # phase2_tracking)
          => /\ The(phase2_tracking').updated_at = now
             /\ LocalDate(The(phase2_tracking').updated_at, last'.tz)
                  = LocalDate(now, last'.tz)]_vars

(***************************************************************************)
(* Termination of the phase-1 walk.                                        *)
(***************************************************************************)
\* loop iterations of a phase-1 request made now in last.tz
Phase1Iterations ==
    WalkIterations(DiaryEntriesFrom(Phase1Date(last.tz)), last.tz,
                   Phase1Date(last.tz), Today, 0)

\* C23: the walk of a successful phase-1 request ends within 2 n + 2 loop
\* iterations, n the number of calendar days that have a diary entry; with an
\* empty diary the streak is 0, and without phase1_start every diary entry is
\* read.
C23_WalkTerminates ==
    Phase1Ok =>
        /\ Phase1Iterations <= 2 * Cardinality(DiaryDays) + 2
        /\ diary = {} => StreakIs(0)
        /\ ~HasPhase1Start => DiaryEntriesFrom(Phase1Date(last.tz)) = diary

\* C23 witness: no phase1_start, a streak over two days with a day without
\* entries between them, the walk ending on the second empty day before them.
C23_Witness ==
    /\ Phase1Ok
    /\ ~HasPhase1Start
    /\ Cardinality(DiaryDays) = 2
    /\ StreakIs(2)
    /\ Phase1Iterations = 5

(***************************************************************************)
(* A new cycle.                                                            *)
(***************************************************************************)
\* C24: phase2_break_days > 0 only with phase2_reintroduction_days = 3.
C24_BreakOnlyAfterReintroduction ==
    (phase_tracking # Null /\ Stored.phase2_break_days > 0)
        => Stored.phase2_reintroduction_days = 3

(***************************************************************************)
(* Symptom check and the complete break.                                   *)
(***************************************************************************)
\* C25: an advance at reintroduction_days 3 made with phase2_break_days
\* already 3 and current_group set assigns that group's result, clears
\* current_group, and stores and reports both counters unchanged.
C25_CheckBeforeTerminalReturn ==
    [][(/\ CheckStep
        /\ Stored.phase2_reintroduction_days = 3
        /\ Stored.phase2_break_days = 3
        /\ GroupUnderTest # NoGroup)
          => /\ GroupUnderTest \in Groups
             /\ The(phase2_tracking').results[GroupUnderTest] \in {2, 3}
             /\ The(phase2_tracking').current_group = NoGroup
             /\ phase_tracking' = phase_tracking
             /\ last'.phase2_reintroduction_days = 3
             /\ last'.phase2_break_days = 3]_vars

(***************************************************************************)
(* Two requests at once.                                                   *)
(***************************************************************************)
\* C26: when two advances of one user served at the same time have both
\* ended, phase_tracking and phase2_tracking are what one of them followed by
\* the other leaves from the store they started from.
C26_Serialisable ==
    (calls # {} /\ Pair.first.pc = "done" /\ Pair.second.pc = "done")
        => LET tz == Pair.first.tz
               alone == RunToEnd(Pair.start, NewRequest(tz))
           IN  Store = RunToEnd(alone, NewRequest(tz))

(***************************************************************************)
(* Frames of the two calculators.                                          *)
(***************************************************************************)
\* C27: a phase-1 request changes nothing but phase1_streak_days, a phase-2
\* request changes neither phase1_streak_days nor current_phase, neither
\* changes timings, the diary or the food log, and after either request the
\* other calculator computes what it would have computed before it.
C27_DisjointWrites ==
    /\ [][/\ last'.op = "phase1"
               => /\ UNCHANGED <<phase2_tracking, timings, diary, food>>
                  /\ phase_tracking # Null
                       => phase_tracking' =
                            Some([Stored EXCEPT !.phase1_streak_days =
                                     The(phase_tracking').phase1_streak_days])
          /\ last'.op = "phase2"
               => /\ UNCHANGED <<timings, diary, food>>
                  /\ phase_tracking # Null
                       => /\ The(phase_tracking').phase1_streak_days
                               = Stored.phase1_streak_days
                          /\ The(phase_tracking').current_phase = Stored.current_phase]_vars
    /\ [](/\ last.op = "phase1" => \A tz \in TZ : Phase2Outcome(tz) = Pair.phase2[tz]
          /\ last.op = "phase2" => \A tz \in TZ : Phase1Streak(tz) = Pair.phase1[tz])

\* C27 witness: a phase-1 request that stored a streak for a user whose break
\* counter and tracking row a phase-2 request had written before.
C27_Witness ==
    /\ Phase1Ok
    /\ Stored.phase1_streak_days >= 1
    /\ Stored.phase2_reintroduction_days = 3
    /\ Stored.phase2_break_days >= 1
    /\ phase2_tracking # Null

(***************************************************************************)
(* Frame of the symptom check.                                             *)
(***************************************************************************)
\* C28: a phase-2 request changes no category result but the one named by
\* current_group, which it sets to 2 or 3; with current_group empty, or no
\* tracking row, it changes none.
C28_OnlyTestedCategory ==
    [][last'.op = "phase2"
          => IF phase2_tracking = Null
             THEN phase2_tracking' # Null
                    => \A g \in Groups : The(phase2_tracking').results[g] = 0
             ELSE \A g \in Groups :
                     The(phase2_tracking').results[g] # The(phase2_tracking).results[g]
                        => /\ g = GroupUnderTest
                           /\ The(phase2_tracking').results[g] \in {2, 3}]_vars

\* C28 witness: a symptom check that found a high entry has stored 3 for
\* fructose and left the other five results unset.
C28_Witness ==
    /\ Phase2Ok
    /\ phase2_tracking # Null
    /\ The(phase2_tracking).current_group = NoGroup
    /\ The(phase2_tracking).updated_at = now
    /\ The(phase2_tracking).results["fructose"] = 3
    /\ \A g \in Groups \ {"fructose"} : The(phase2_tracking).results[g] = 0

(***************************************************************************)
(* Days counted by the phase-1 streak.                                     *)
(***************************************************************************)
\* C29: the phase-1 streak is at most the number of the caller's days from
\* phase1_start (or the start of the diary) to today that have a diary entry;
\* and over a whole diary of low entries in which no two consecutive days are
\* empty, today's included, it is exactly the number of days with entries,
\* however many single empty days lie between them.
C29_OnlyLoggedDaysCounted ==
    Phase1Ok =>
        /\ Stored.phase1_streak_days <= Cardinality(LoggedSince(WalkFloor))
        /\ last.current_streak_days = Stored.phase1_streak_days
        /\ (/\ ~HasPhase1Start
            /\ \A d \in DiaryDays : DayLow(d)
            /\ Gaps \cap (EarliestDay..Today) = {})
              => StreakIs(Cardinality(DiaryDays))

\* C29 witness: entries on three days with a single empty day after each of
\* the first two, no phase1_start: the streak bridges both empty days.
C29_Witness ==
    /\ Phase1Ok
    /\ ~HasPhase1Start
    /\ DiaryDays = {Today - 4, Today - 2, Today}
    /\ StreakIs(3)

(***************************************************************************)
(* Length of a group's test.                                               *)
(***************************************************************************)
\* C30: a phase-2 request assigns the result of the group under test only
\* when today is at least 3 calendar days after the day current_group was set.
C30_NoVerdictBeforeThreeDays ==
    [][(/\ last'.op = "phase2"
        /\ GroupUnderTest \in Groups
        /\ The(phase2_tracking').current_group = NoGroup)
          => LocalDate(now, last'.tz) - LocalDate(Pair.started, last'.tz) >= 3]_vars

====
